---- MODULE Spec2Model ----
(***************************************************************************)
(* A model of the dataset builder of fred.py (build_and_save_csv and the   *)
(* normalizers it calls), of the stand-alone GSS aggregator               *)
(* prepare_gss_aggregates.py, and of the retry loops of fred.py, which     *)
(* run under their own specification SpecRetry.                            *)
(*                                                                         *)
(* Encodings.  A float is a pair <<n, d>>: a finite value is the reduced   *)
(* fraction n/d with d > 0, NaN is <<0, 0>>, +inf is <<1, 0>> and -inf is  *)
(* <<-1, 0>>; arithmetic is exact (binary rounding is not modelled).  A    *)
(* date string is a record [k, d]: k = "iso" spells the calendar date d as *)
(* YYYY-MM-DD, k = "junk" is a string that is no date, k = "nan" is the    *)
(* missing value pandas stores in a string column.  A datetime is the      *)
(* integer d of the date, NaT being 0.  The calendar has two dates per     *)
(* year y: Jan 1 (2y - 1) and Dec 31 (2y).                                 *)
(***************************************************************************)
EXTENDS Integers, Sequences, FiniteSets, TLC

VARIABLES prog, fred_js, census_js, gss_file, pc, dfs, meta_list, merged,
          files, exit_code, aggregated, http

vars == <<prog, fred_js, census_js, gss_file, pc, dfs, meta_list, merged,
          files, exit_code, aggregated, http>>

\* ------------------------------------------------------------------ bounds
\* number of entries of fred_specs that are fetched (the code lists 16)
NumFred == 2
\* total number of observations the date-keyed sources return in one run
MaxObs == 3
\* number of calendar years
MaxYear == 2
\* number of respondents in the microdata file
MaxRecs == 3

MaxDate == 2 * MaxYear
Years == 1..MaxYear

\* ------------------------------------------------------------------ floats
NaN == <<0, 0>>
Inf == <<1, 0>>
NegInf == <<-1, 0>>

Abs(x) == IF x < 0 THEN -x ELSE x

RECURSIVE GCD(_, _)
GCD(a, b) == IF b = 0 THEN a ELSE GCD(b, a % b)

\* the reduced fraction n/d, d # 0
Frac(n, d) ==
    LET g == GCD(Abs(n), Abs(d))
        s == IF d < 0 THEN -1 ELSE 1
    IN  <<(s * n) \div g, (s * d) \div g>>

Num(n) == <<n, 1>>
IsNaN(x) == x = NaN
IsInf(x) == x = Inf \/ x = NegInf
IsFinite(x) == x[2] > 0

\* a / b on floats with finite or NaN operands: x/0 is +-inf, 0/0 is NaN
FloatDiv(a, b) ==
    IF IsNaN(a) \/ IsNaN(b) THEN NaN
    ELSE IF b[1] = 0 THEN (IF a[1] = 0 THEN NaN ELSE IF a[1] > 0 THEN Inf ELSE NegInf)
    ELSE Frac(a[1] * b[2], a[2] * b[1])

\* a - b on floats, b finite
FloatSub(a, b) ==
    IF IsNaN(a) \/ IsNaN(b) THEN NaN
    ELSE IF IsInf(a) THEN a
    ELSE Frac(a[1] * b[2] - b[1] * a[2], a[2] * b[2])

\* a * k on floats, k a positive integer
FloatScale(a, k) ==
    IF IsNaN(a) \/ IsInf(a) THEN a ELSE Frac(a[1] * k, a[2])

\* ------------------------------------------------------------- date strings
NaT == 0
NA == 0
Iso(d) == [k |-> "iso", d |-> d]
JunkStr == [k |-> "junk", d |-> 0]
NaNStr == [k |-> "nan", d |-> 0]

Jan1(y) == 2 * y - 1
Dec31(y) == 2 * y

\* pd.to_datetime(s, errors="coerce") on one cell
ToDatetime(s) == IF s.k = "iso" THEN s.d ELSE NaT

\* Series.dt.strftime("%Y-%m-%d") on one cell: NaT gives NaN
Strftime(dt) == IF dt = NaT THEN NaNStr ELSE Iso(dt)

\* Series.dt.year.astype("Int64") on one cell
YearOf(dt) == IF dt = NaT THEN NA ELSE (dt + 1) \div 2

\* ---------------------------------------------------------------- sequences
RECURSIVE Flatten(_)
Flatten(ss) == IF ss = <<>> THEN <<>> ELSE Head(ss) \o Flatten(Tail(ss))

Range(s) == {s[i] : i \in 1..Len(s)}

RECURSIVE SeqSum(_)
SeqSum(s) == IF s = <<>> THEN 0 ELSE Head(s) + SeqSum(Tail(s))

\* ------------------------------------------------------------------ tables
\* A DataFrame: its column names in order and its rows in order, each row a
\* function from the column names to cells.
EmptyFrame(cols) == [columns |-> cols, rows |-> <<>>]

ValueCols(cols) == SelectSeq(cols, LAMBDA c : c \notin {"date", "year"})

\* (mutant) the cells of a missing side filled with 0 instead of NaN
NaNRowZero(cols) == [c \in Range(cols) |-> Num(0)]

NaNRow(cols) == [c \in Range(cols) |-> NaN]

\* ---------------------------------------------------------- Series Normalizer
\* float(v) if v not in (None, ".", "") else nan; a token float() rejects is nan
ParseValue(v) == IF v.k = "num" THEN Num(v.n) ELSE NaN

\* the first NumFred entries of fred_specs
fred_specs ==
    SubSeq(<< [id |-> "UNRATE", col |-> "UNEMPLOYMENT_RATE"],
              [id |-> "CIVPART", col |-> "LABOR_FORCE_PARTICIPATION"],
              [id |-> "MEHOINUSA672N", col |-> "REAL_MEDIAN_HH_INCOME"],
              [id |-> "SIPOVGINIUSA", col |-> "GINI_INDEX"] >>, 1, NumFred)

\* (mutant) a failed fetch returns a frame without the value column
fred_series_df_NoColumn(js, col_name) ==
    IF ~js.ok THEN EmptyFrame(<<"date">>)
    ELSE [columns |-> <<"date", col_name>>,
          rows |-> [i \in 1..Len(js.observations) |->
                      ("date" :> Strftime(ToDatetime(js.observations[i].date)))
                      @@ (col_name :> ParseValue(js.observations[i].value))]]

\* fred_series_df: the frame of one FRED observations response js.  Every
\* observation becomes a row; its date is parsed with errors="coerce" and
\* formatted back, so a date that does not parse stays as a row dated NaN.
fred_series_df(js, col_name) ==
    IF ~js.ok THEN EmptyFrame(<<"date", col_name>>)
    ELSE [columns |-> <<"date", col_name>>,
          rows |-> [i \in 1..Len(js.observations) |->
                      ("date" :> Strftime(ToDatetime(js.observations[i].date)))
                      @@ (col_name :> ParseValue(js.observations[i].value))]]

\* DataFrame.drop_duplicates(subset=["date"]): the first row of each date
DropDuplicates(rows) ==
    LET keep == SelectSeq([i \in 1..Len(rows) |-> i],
                          LAMBDA i : \A j \in 1..(i - 1) : rows[j].date # rows[i].date)
    IN  [k \in 1..Len(keep) |-> rows[keep[k]]]

\* the order of date strings: ISO dates by date, then other text, NaN last
KeyRank(s) == IF s.k = "iso" THEN s.d ELSE IF s.k = "junk" THEN MaxDate + 1 ELSE MaxDate + 2

RECURSIVE SortedKeys(_)
SortedKeys(S) ==
    IF S = {} THEN <<>>
    ELSE LET m == CHOOSE x \in S : \A y \in S : KeyRank(x) <= KeyRank(y)
         IN  <<m>> \o SortedKeys(S \ {m})

\* DataFrame.sort_values("date"), rows of equal date keeping their order
SortByDate(rows) ==
    Flatten([i \in 1..Len(SortedKeys({r.date : r \in Range(rows)})) |->
               SelectSeq(rows, LAMBDA r :
                   r.date = SortedKeys({q.date : q \in Range(rows)})[i])])

KEEP_AGE == {"All people", "All People", "0"}

\* the date string f"{yr}-12-31" of a YEAR cell
CensusDate(yr) == IF yr.k = "year" THEN Iso(Dec31(yr.y)) ELSE JunkStr

\* census_poverty_rate_df: the frame of the Census response js; a failed
\* request and a response without an "All people" row both end, after the
\* retries, in the empty frame
census_poverty_rate_df(js) ==
    LET kept == SelectSeq(js.rows, LAMBDA r : r.age \in KEEP_AGE)
        recs == [i \in 1..Len(kept) |->
                   ("date" :> CensusDate(kept[i].yr))
                   @@ ("POVERTY_RATE_OFFICIAL" :> ParseValue(kept[i].rate))]
    IN  IF ~js.ok \/ recs = <<>> THEN EmptyFrame(<<"date", "POVERTY_RATE_OFFICIAL">>)
        ELSE [columns |-> <<"date", "POVERTY_RATE_OFFICIAL">>,
              rows |-> SortByDate(DropDuplicates(recs))]

\* ------------------------------------------------------------ Annual Aggregator
\* the first of the accepted aliases that is a column of the file, "" if none
FirstIn(candidates, columns) ==
    LET hits == SelectSeq(candidates, LAMBDA c : c \in columns)
    IN  IF hits = <<>> THEN "" ELSE Head(hits)

\* (gss[field] == 1).astype(float): a missing value compares unequal
EqOne(x) == IF x = Num(1) THEN 1 ELSE 0

\* (gss[field] >= 3).astype(float): a missing value compares false
AtLeast3(x) == IF IsFinite(x) /\ x[1] >= 3 * x[2] THEN 1 ELSE 0

RECURSIVE SortInts(_)
SortInts(S) ==
    IF S = {} THEN <<>>
    ELSE LET m == CHOOSE x \in S : \A y \in S : x <= y
         IN  <<m>> \o SortInts(S \ {m})

\* the 0/1 flag columns of a respondent: in_union, working, college in
\* fred.py; union_indicator, employed_indicator, college_indicator in
\* prepare_gss_aggregates.py
Flag(name, r) ==
    IF name \in {"college", "college_indicator"} THEN AtLeast3(r.degree)
    ELSE IF name \in {"working", "employed_indicator"} THEN EqOne(r.wrkstat)
    ELSE EqOne(r.union)

\* groupby(year)[flag].mean() for one year: the mean over every row of the year
GroupMean(rows, y, name) ==
    LET g == SelectSeq(rows, LAMBDA r : r.year = y)
    IN  Frac(SeqSum([i \in 1..Len(g) |-> Flag(name, g[i])]), Len(g))

GssColumns == <<"year", "gss_union_pct", "gss_work_pct", "gss_college_pct">>

\* gss_aggregate_by_year: the annual frame of the microdata file.  Every
\* exception inside the try block (file not found, no year column, a missing
\* field making gss.get(...) == 1 a plain bool, no respondent at all) ends in
\* the empty frame.
gss_aggregate_by_year(file) ==
    IF \/ ~file.exists
       \/ FirstIn(<<"year", "YEAR", "Year">>, file.columns) = ""
       \/ ~({"union", "wrkstat", "degree"} \subseteq file.columns)
       \/ file.rows = <<>>
    THEN EmptyFrame(GssColumns)
    ELSE LET ys == SortInts({r.year : r \in Range(file.rows)})
         IN  [columns |-> GssColumns,
              rows |-> [i \in 1..Len(ys) |->
                 [year |-> ys[i],
                  gss_union_pct |->
                      FloatScale(GroupMean(file.rows, ys[i], "in_union"), 100),
                  gss_work_pct |->
                      FloatScale(GroupMean(file.rows, ys[i], "working"), 100),
                  gss_college_pct |->
                      FloatScale(GroupMean(file.rows, ys[i], "college"), 100)]]]

\* ------------------------------------------------------------ Alignment Merger
\* the rows pd.merge(left, right, on="date", how="outer") makes of one key:
\* every pairing of the left rows and the right rows of that key (NaN keys
\* match each other), or the rows of the one side padded with NaN
KeyBlock(left, right, key) ==
    LET L == SelectSeq(left.rows, LAMBDA r : r.date = key)
        R == SelectSeq(right.rows, LAMBDA r : r.date = key)
    IN  IF R = <<>> THEN [i \in 1..Len(L) |-> L[i] @@ NaNRow(ValueCols(right.columns))]
        ELSE IF L = <<>> THEN [i \in 1..Len(R) |-> R[i] @@ NaNRow(ValueCols(left.columns))]
        ELSE [i \in 1..(Len(L) * Len(R)) |->
                L[((i - 1) \div Len(R)) + 1] @@ R[((i - 1) % Len(R)) + 1]]

\* the keys of both frames in the order they first appear, left frame first,
\* NaN last
AppearanceKeys(left, right) ==
    LET all == left.rows \o right.rows
        first == DropDuplicates(all)
        ks == [i \in 1..Len(first) |-> first[i].date]
    IN  SelectSeq(ks, LAMBDA k : k # NaNStr) \o SelectSeq(ks, LAMBDA k : k = NaNStr)

\* (mutant) how="inner" on year: only the rows whose year has an annual row
MergeInnerYear(m, gss) ==
    [columns |-> m.columns \o SelectSeq(gss.columns, LAMBDA c : c # "year"),
     rows |-> LET hit == SelectSeq(m.rows, LAMBDA r : \E k \in 1..Len(gss.rows) :
                                                     gss.rows[k].year = r.year)
              IN  [i \in 1..Len(hit) |->
                     hit[i] @@ (CHOOSE g \in {gss.rows[k] : k \in 1..Len(gss.rows)} :
                                   g.year = hit[i].year)]]

\* (mutant) how="inner": only the keys both frames hold
MergeInner(left, right, sort_keys) ==
    LET both == {r.date : r \in Range(left.rows)} \cap {r.date : r \in Range(right.rows)}
        keys == SelectSeq(AppearanceKeys(left, right), LAMBDA k : k \in both)
    IN  [columns |-> left.columns \o ValueCols(right.columns),
         rows |-> Flatten([i \in 1..Len(keys) |-> KeyBlock(left, right, keys[i])])]

\* pd.merge(left, right, on="date", how="outer"): the union of the keys.  The
\* order of the keys depends on the pandas release: sorted (sort_keys), or in
\* order of first appearance.
MergeOuter(left, right, sort_keys) ==
    LET keys == IF sort_keys
                THEN SortedKeys({r.date : r \in Range(left.rows) \cup Range(right.rows)})
                ELSE AppearanceKeys(left, right)
    IN  [columns |-> left.columns \o ValueCols(right.columns),
         rows |-> Flatten([i \in 1..Len(keys) |-> KeyBlock(left, right, keys[i])])]

\* the loop that folds the date-keyed frames, in list order
RECURSIVE MergeDates(_, _)
MergeDates(frames, sort_keys) ==
    IF Len(frames) = 1 THEN frames[1]
    ELSE MergeOuter(MergeDates(SubSeq(frames, 1, Len(frames) - 1), sort_keys),
                    frames[Len(frames)], sort_keys)

\* the frames of dfs that are date-keyed, and the year-keyed one
IsYearKeyed(d) == "year" \in Range(d.columns) /\ "date" \notin Range(d.columns)
FredCensusDfs(frames) == SelectSeq(frames, LAMBDA d : ~IsYearKeyed(d))
GssDfs(frames) == SelectSeq(frames, LAMBDA d : IsYearKeyed(d))

\* the order sort_values gives datetimes: ascending, NaT last
DateRank(dt) == IF dt = NaT THEN MaxDate + 1 ELSE dt

\* (mutant) lines 447-450 without the sort_values("date") of line 449
DeriveYearNoSort(m) ==
    [columns |-> m.columns \o <<"year">>,
     rows |-> [i \in 1..Len(m.rows) |->
                 [c \in DOMAIN m.rows[i] \cup {"year"} |->
                    IF c = "date" THEN Strftime(ToDatetime(m.rows[i].date))
                    ELSE IF c = "year" THEN YearOf(ToDatetime(m.rows[i].date))
                    ELSE m.rows[i][c]]]]

\* lines 447-450: parse the date column, derive year, sort by date (rows of
\* equal date keep their order), format the date back
DeriveYearSort(m) ==
    LET parsed == [i \in 1..Len(m.rows) |->
                     [c \in DOMAIN m.rows[i] \cup {"year"} |->
                        IF c = "date" THEN ToDatetime(m.rows[i].date)
                        ELSE IF c = "year" THEN YearOf(ToDatetime(m.rows[i].date))
                        ELSE m.rows[i][c]]]
        ranks == SortInts({DateRank(r.date) : r \in Range(parsed)})
        sorted == Flatten([i \in 1..Len(ranks) |->
                     SelectSeq(parsed, LAMBDA r : DateRank(r.date) = ranks[i])])
    IN  [columns |-> m.columns \o <<"year">>,
         rows |-> [i \in 1..Len(sorted) |->
                     [c \in DOMAIN sorted[i] |->
                        IF c = "date" THEN Strftime(sorted[i].date) ELSE sorted[i][c]]]]

\* pd.merge(merged, gss_data, on="year", how="left"): every row of merged, in
\* order, with the annual row of its year or NaN
MergeLeftYear(m, gss) ==
    LET match(r) == SelectSeq(gss.rows, LAMBDA g : g.year = r.year)
    IN  [columns |-> m.columns \o ValueCols(gss.columns),
         rows |-> Flatten([i \in 1..Len(m.rows) |->
                    IF match(m.rows[i]) = <<>>
                    THEN << m.rows[i] @@ NaNRow(ValueCols(gss.columns)) >>
                    ELSE [j \in 1..Len(match(m.rows[i])) |->
                            m.rows[i] @@ match(m.rows[i])[j]]])]

\* --------------------------------------------------------- Derived Metrics
\* (mutant) no forward fill: pct_change(fill_method=None)
FfillNone(vals) == vals

\* the forward fill Series.pct_change() applies first (fill_method="pad")
Ffill(vals) ==
    LET f[i \in 1..Len(vals)] ==
            IF i = 1 \/ ~IsNaN(vals[i]) THEN vals[i] ELSE f[i - 1]
    IN  [i \in 1..Len(vals) |-> f[i]]

\* Series.pct_change(): filled / filled.shift(1) - 1
PctChange(vals) ==
    [i \in 1..Len(vals) |->
        IF i = 1 THEN NaN
        ELSE FloatSub(FloatDiv(Ffill(vals)[i], Ffill(vals)[i - 1]), Num(1))]

\* (mutant) the infinities left in place
KeepInf(x) == x

\* Series.replace([inf, -inf], nan) on one cell
ReplaceInf(x) == IF IsInf(x) THEN NaN ELSE x

\* the _PCT_CHANGE column of a value column
PctColumn(vals) ==
    [i \in 1..Len(vals) |-> ReplaceInf(FloatScale(PctChange(vals)[i], 100))]

PctName(col) == col \o "_PCT_CHANGE"

Column(m, col) == [i \in 1..Len(m.rows) |-> m.rows[i][col]]

\* (mutant) lines 458-469 without the reorder of lines 471-476: the
\* percent-change columns stay where they were appended, after all the others
AddPctChangeAppended(m) ==
    LET vc == ValueCols(m.columns)
    IN  [columns |-> m.columns \o [k \in 1..Len(vc) |-> PctName(vc[k])],
         rows |-> [i \in 1..Len(m.rows) |->
                     [c \in DOMAIN m.rows[i] \cup {PctName(vc[k]) : k \in 1..Len(vc)} |->
                        IF c \in DOMAIN m.rows[i] THEN m.rows[i][c]
                        ELSE LET src == CHOOSE k \in 1..Len(vc) : PctName(vc[k]) = c
                             IN  PctColumn(Column(m, vc[src]))[i]]]]

\* lines 458-476: add a percent-change column per value column and order the
\* columns date, year, then each value column followed by its percent change
AddPctChange(m) ==
    LET vc == ValueCols(m.columns)
    IN  [columns |-> <<"date", "year">>
                     \o Flatten([k \in 1..Len(vc) |-> <<vc[k], PctName(vc[k])>>]),
         rows |-> [i \in 1..Len(m.rows) |->
                     [c \in DOMAIN m.rows[i] \cup {PctName(vc[k]) : k \in 1..Len(vc)} |->
                        IF c \in DOMAIN m.rows[i] THEN m.rows[i][c]
                        ELSE LET src == CHOOSE k \in 1..Len(vc) : PctName(vc[k]) = c
                             IN  PctColumn(Column(m, vc[src]))[i]]]]

\* lines 419-476 after the check for an empty merge: the output table
BuildTable(frames, sort_keys) ==
    LET m1 == DeriveYearSort(MergeDates(FredCensusDfs(frames), sort_keys))
        gss == GssDfs(frames)
        m2 == IF gss # <<>> /\ gss[Len(gss)].rows # <<>>
              THEN MergeLeftYear(m1, gss[Len(gss)]) ELSE m1
    IN  AddPctChange(m2)

\* ------------------------------------------------ prepare_gss_aggregates.py
Indicators ==
    << [field |-> "union", upper |-> "UNION", ind |-> "union_indicator", out |-> "gss_union_pct"],
       [field |-> "wrkstat", upper |-> "WRKSTAT", ind |-> "employed_indicator", out |-> "gss_employed_pct"],
       [field |-> "degree", upper |-> "DEGREE", ind |-> "college_indicator", out |-> "gss_college_pct"] >>

\* the indicators whose field is a column of the file
PresentIndicators(columns) ==
    SelectSeq(Indicators, LAMBDA x : x.upper \in columns \/ x.field \in columns)

\* df.groupby('year').agg(agg_dict): indexed by year, one column per key of
\* agg_dict, which are the indicator columns and 'year' (the count)
GroupAgg(file) ==
    LET inds == PresentIndicators(file.columns)
        ys == SortInts({r.year : r \in Range(file.rows)})
    IN  [index |-> "year",
         columns |-> [k \in 1..Len(inds) |-> inds[k].ind] \o <<"year">>,
         rows |-> [i \in 1..Len(ys) |->
            [index |-> ys[i],
             cells |-> [c \in {inds[k].ind : k \in 1..Len(inds)} \cup {"year"} |->
                IF c = "year"
                THEN Num(Len(SelectSeq(file.rows, LAMBDA r : r.year = ys[i])))
                ELSE GroupMean(file.rows, ys[i], c)]]]]

\* DataFrame.reset_index() raises ValueError when the index name is already a
\* column ("cannot insert year, already exists")
ResetIndexRaises(frame) == frame.index \in Range(frame.columns)

\* the column names of the aggregate that contain 'pct'
HasPct(col) == col \in {"gss_union_pct", "gss_employed_pct", "gss_college_pct"}

NoOutput == [written |-> FALSE, columns |-> <<>>, rows |-> <<>>]

\* prepare_gss_data: what the script leaves behind.  It returns early when the
\* file cannot be read or has no year column; otherwise it aggregates, and
\* writes the CSV only if no step before to_csv raises.
prepare_gss_data(file) ==
    IF ~file.exists \/ FirstIn(<<"YEAR", "year", "Year">>, file.columns) = ""
    THEN [status |-> "returned", out |-> NoOutput]
    ELSE IF ResetIndexRaises(GroupAgg(file))
    THEN [status |-> "raised", out |-> NoOutput]
    ELSE LET g == GroupAgg(file)
         IN  [status |-> "done",
              out |-> [written |-> TRUE,
                       columns |-> <<"year">> \o g.columns,
                       rows |-> [i \in 1..Len(g.rows) |->
                          [c \in Range(g.columns) \cup {"year"} |->
                             IF c = "year" THEN Num(g.rows[i].index)
                             ELSE IF HasPct(c) THEN FloatScale(g.rows[i].cells[c], 100)
                             ELSE g.rows[i].cells[c]]]]]

\* ------------------------------------------------------------------- inputs
NumTok(n) == [k |-> "num", n |-> n]
DotTok == [k |-> "dot", n |-> 0]
Failed == [ok |-> FALSE, observations |-> <<>>]
CensusFailed == [ok |-> FALSE, rows |-> <<>>]

\* FRED dates its observations on the first day of the period
FredDateToks == {Iso(Jan1(y)) : y \in Years} \cup {JunkStr}

\* the responses of source i with n observations; the j-th value is 10 i + j
\* (a source without observations is a failed request)
FredResponses(i, n) ==
    IF n = 0 THEN {Failed}
    ELSE {[ok |-> TRUE,
           observations |-> [j \in 1..n |-> [date |-> f[j], value |-> NumTok(10 * i + j)]]]
            : f \in [1..n -> FredDateToks]}

\* every list of k FRED responses holding at most budget observations
RECURSIVE FredInputs(_, _)
FredInputs(k, budget) ==
    IF k = 0 THEN {<<>>}
    ELSE UNION {{Append(rest, r) : rest \in FredInputs(k - 1, budget - n),
                                   r \in FredResponses(k, n)} : n \in 0..budget}

Used(js) == SeqSum([i \in 1..Len(js) |-> Len(js[i].observations)])

YearToks == {[k |-> "year", y |-> y] : y \in Years} \cup {[k |-> "junk", y |-> 0]}

\* the rows a Census response is made of: the total of any year, and the row
\* of another age group
CensusToks ==
    {[yr |-> y, age |-> "All people"] : y \in YearToks}
    \cup {[yr |-> [k |-> "year", y |-> 1], age |-> "Male"]}

\* the Census responses with at most budget rows; the j-th rate is 90 + j
\* (a response without rows is a failed request)
CensusInputs(budget) ==
    UNION {{[ok |-> TRUE,
             rows |-> [j \in 1..n |-> [yr |-> f[j].yr, age |-> f[j].age,
                                       rate |-> NumTok(90 + j)]]]
              : f \in [1..n -> CensusToks]}
           : n \in 1..budget}
    \cup {CensusFailed}

Respondent(y, u, w, d) == [year |-> y, union |-> u, wrkstat |-> w, degree |-> d]

Profiles == { <<Num(1), Num(1), Num(3)>>, <<Num(0), Num(2), Num(2)>>, <<NaN, NaN, NaN>> }

AllFields == {"year", "union", "wrkstat", "degree"}

\* the survey years: the first and the last year of the calendar
GssYears == {1, MaxYear}

\* the microdata of scenario C: union 1 and 0 in year 1, union 1 in year 2
ScenarioC ==
    << Respondent(1, Num(1), Num(1), Num(3)), Respondent(1, Num(0), Num(2), Num(2)),
       Respondent(2, Num(1), Num(1), Num(3)) >>

GssFile(cols, rows) == [exists |-> TRUE, columns |-> cols, rows |-> rows]

\* microdata files: every list of at most MaxRecs respondents with all the
\* fields, and scenario C with a field, the year column or the file missing
GssFiles ==
    UNION {{GssFile(AllFields,
                    [j \in 1..n |-> Respondent(f[j][1], f[j][2][1], f[j][2][2], f[j][2][3])])
              : f \in [1..n -> GssYears \X Profiles]} : n \in 0..MaxRecs}
    \cup {GssFile(AllFields \ {c}, ScenarioC) : c \in AllFields}
    \cup {GssFile((AllFields \ {"year"}) \cup {"YEAR"}, ScenarioC)}
    \cup {[exists |-> FALSE, columns |-> {}, rows |-> <<>>]}

\* the series of scenario A: S1 has two dates, S2 only the first of them
ScenarioA ==
    [i \in 1..NumFred |->
        IF i = 1 THEN [ok |-> TRUE, observations |->
                        << [date |-> Iso(1), value |-> NumTok(5)],
                           [date |-> Iso(2), value |-> NumTok(6)] >>]
        ELSE IF i = 2 THEN [ok |-> TRUE, observations |->
                        << [date |-> Iso(1), value |-> NumTok(100)] >>]
        ELSE Failed]

\* one series observed, missing (".") or not reported on each date, beside a
\* series that reports every date
GapChoices == {NumTok(0), NumTok(10), NumTok(15), DotTok, [k |-> "none", n |-> 0]}

\* the dates the series with gaps may report
GapDates == MaxYear + 2

GapSeries(c) ==
    LET ds == SelectSeq([d \in 1..GapDates |-> d], LAMBDA d : c[d].k # "none")
    IN  [ok |-> TRUE,
         observations |-> [j \in 1..Len(ds) |-> [date |-> Iso(ds[j]), value |-> c[ds[j]]]]]

FullSeries ==
    [ok |-> TRUE,
     observations |-> [d \in 1..GapDates |-> [date |-> Iso(d), value |-> NumTok(1)]]]

\* microdata surveyed in the first year and in a year after the last date
GapsMicrodata ==
    << Respondent(1, Num(1), Num(1), Num(3)), Respondent(1, Num(0), Num(2), Num(2)),
       Respondent(MaxYear + 1, Num(1), Num(1), Num(3)) >>

GapInputs ==
    {[i \in 1..NumFred |-> IF i = 1 THEN GapSeries(c) ELSE IF i = 2 THEN FullSeries ELSE Failed]
       : c \in [1..GapDates -> GapChoices]}

\* every FRED request fails
NoData == [i \in 1..NumFred |-> Failed]

\* ------------------------------------------------------------ state machine
NoFrame == EmptyFrame(<<>>)

\* (mutant) the annual frame joins dfs even when it is empty
GssIncludedAlways(gss_df) == TRUE

\* line 408: if not gss_df.empty
GssIncluded(gss_df) == gss_df.rows # <<>>

\* (mutant) the check of line 442 never fires
NothingToWriteNever(m) == FALSE

\* line 442: merged is None or merged.empty
NothingToWrite(m) == m.rows = <<>>

\* no retry loop is running
NoHttp == [fn |-> "", replies |-> <<>>, attempt |-> 0, at |-> "idle", requests |-> 0,
           slept |-> <<>>, result |-> [k |-> "pending", body |-> 0]]

InitState ==
    /\ http = NoHttp
    /\ dfs = <<>>
    /\ meta_list = <<>>
    /\ merged = NoFrame
    /\ files = {}
    /\ exit_code = -1
    /\ aggregated = [status |-> "none", out |-> NoOutput]

\* a run of fred.py on sources that return few observations on any dates
InitMerge ==
    /\ prog = "build" /\ pc = "fetch_fred"
    /\ fred_js \in FredInputs(NumFred, MaxObs)
    /\ census_js \in CensusInputs(MaxObs - Used(fred_js))
    /\ gss_file = GssFile(AllFields, ScenarioC)
    /\ InitState

\* a run of fred.py on a series with gaps beside a series without
InitGaps ==
    /\ prog = "build" /\ pc = "fetch_fred"
    /\ fred_js \in GapInputs
    /\ census_js = CensusFailed
    /\ gss_file = GssFile(AllFields, GapsMicrodata)
    /\ InitState

\* a run of fred.py on the series of scenario A, or on no data at all, and
\* any microdata file
InitGss ==
    /\ prog = "build" /\ pc = "fetch_fred"
    /\ fred_js \in {ScenarioA, NoData}
    /\ census_js = CensusFailed
    /\ gss_file \in GssFiles
    /\ InitState

\* a run of prepare_gss_aggregates.py on any microdata file
InitPrepare ==
    /\ prog = "prepare" /\ pc = "prepare"
    /\ fred_js = ScenarioA
    /\ census_js = CensusFailed
    /\ gss_file \in GssFiles
    /\ InitState

Init == InitMerge \/ InitGaps \/ InitGss \/ InitPrepare

\* one iteration of the loop over fred_specs (lines 380-392)
FetchFred ==
    /\ pc = "fetch_fred"
    /\ LET i == Len(dfs) + 1
       IN  /\ dfs' = Append(dfs, fred_series_df(fred_js[i], fred_specs[i].col))
           /\ meta_list' = Append(meta_list, fred_specs[i].id)
           /\ pc' = IF i = NumFred THEN "fetch_census" ELSE "fetch_fred"
    /\ UNCHANGED <<http, prog, fred_js, census_js, gss_file, merged, files, exit_code, aggregated>>

\* lines 394-403
FetchCensus ==
    /\ pc = "fetch_census"
    /\ dfs' = Append(dfs, census_poverty_rate_df(census_js))
    /\ meta_list' = Append(meta_list, "CENSUS_HISTPOV2_POV_RATE_ALL_PEOPLE")
    /\ pc' = "load_gss"
    /\ UNCHANGED <<http, prog, fred_js, census_js, gss_file, merged, files, exit_code, aggregated>>

\* lines 405-417: the annual frame joins dfs only when it is not empty
LoadGss ==
    /\ pc = "load_gss"
    /\ LET gss_df == gss_aggregate_by_year(gss_file)
       IN  IF GssIncluded(gss_df)
           THEN /\ dfs' = Append(dfs, gss_df)
                /\ meta_list' = Append(meta_list, "GSS_AGGREGATED")
           ELSE UNCHANGED <<dfs, meta_list>>
    /\ pc' = "merge"
    /\ UNCHANGED <<http, prog, fred_js, census_js, gss_file, merged, files, exit_code, aggregated>>

\* lines 442-444: nothing to write, sys.exit(2)
ExitNoData ==
    /\ pc = "merge"
    /\ NothingToWrite(MergeDates(FredCensusDfs(dfs), TRUE))
    /\ pc' = "exited"
    /\ exit_code' = 2
    /\ UNCHANGED <<http, prog, fred_js, census_js, gss_file, dfs, meta_list, merged, files, aggregated>>

\* lines 419-476: merge, derive year, sort, join the annual frame, add the
\* percent changes
Merge ==
    /\ pc = "merge"
    /\ ~NothingToWrite(MergeDates(FredCensusDfs(dfs), TRUE))
    /\ \E sort_keys \in BOOLEAN : merged' = BuildTable(dfs, sort_keys)
    /\ pc' = "write_csv"
    /\ UNCHANGED <<http, prog, fred_js, census_js, gss_file, dfs, meta_list, files, exit_code, aggregated>>

\* lines 478-480
WriteCsv ==
    /\ pc = "write_csv"
    /\ files' = files \cup {"csv"}
    /\ pc' = "write_dta"
    /\ UNCHANGED <<http, prog, fred_js, census_js, gss_file, dfs, meta_list, merged, exit_code, aggregated>>

\* lines 482-488
WriteDta ==
    /\ pc = "write_dta"
    /\ files' = files \cup {"dta"}
    /\ pc' = "write_meta"
    /\ UNCHANGED <<http, prog, fred_js, census_js, gss_file, dfs, meta_list, merged, exit_code, aggregated>>

\* lines 490-511
WriteMeta ==
    /\ pc = "write_meta"
    /\ files' = files \cup {"json"}
    /\ pc' = "done"
    /\ exit_code' = 0
    /\ UNCHANGED <<http, prog, fred_js, census_js, gss_file, dfs, meta_list, merged, aggregated>>

\* lines 478-509 and 528-530: a write that raises (to_csv, to_stata, open or
\* json.dump) ends the run in the handler of __main__ with sys.exit(1); the
\* file it was writing is left absent or incomplete, the files written
\* before it stay
FailWrite ==
    /\ pc \in {"write_csv", "write_dta", "write_meta"}
    /\ \E partial \in BOOLEAN :
          files' = IF partial
                   THEN files \cup {CHOOSE a \in {"csv", "dta", "json"} :
                                       pc = "write_" \o (IF a = "json" THEN "meta" ELSE a)}
                   ELSE files
    /\ pc' = "failed"
    /\ exit_code' = 1
    /\ UNCHANGED <<http, prog, fred_js, census_js, gss_file, dfs, meta_list, merged, aggregated>>

\* prepare_gss_aggregates.py, start to end
PrepareGssData ==
    /\ pc = "prepare"
    /\ aggregated' = prepare_gss_data(gss_file)
    /\ pc' = "prepared"
    /\ UNCHANGED <<http, prog, fred_js, census_js, gss_file, dfs, meta_list, merged, files, exit_code>>

Next ==
    \/ FetchFred
    \/ FetchCensus
    \/ LoadGss
    \/ ExitNoData
    \/ Merge
    \/ WriteCsv
    \/ WriteDta
    \/ WriteMeta
    \/ FailWrite
    \/ PrepareGssData

Spec == Init /\ [][Next]_vars

\* ------------------------------------------------------------- retry loops
\* the loop of _http_get_json (lines 92-101) and the loop of
\* census_poverty_rate_df (lines 294-340).  Durations are in tenths of a
\* second.
MAX_RETRIES == 3
RETRY_SLEEP == 15

RetryFns == {"_http_get_json", "census_poverty_rate_df"}

\* what one request can come to: for _http_get_json an exception (of
\* requests.get, raise_for_status or r.json) or a JSON body; for the Census
\* loop an exception, a body without the expected columns, a body without an
\* "All people" row, or a body with such rows
Replies(fn) ==
    IF fn = "_http_get_json"
    THEN {[k |-> "error", body |-> 0]} \cup {[k |-> "json", body |-> b] : b \in 1..2}
    ELSE {[k |-> c, body |-> 0] : c \in {"error", "bad_schema", "no_rows", "rows"}}

\* the attempt reaches its return statement (line 96, line 333)
Succeeds(fn, reply) == reply.k = (IF fn = "_http_get_json" THEN "json" ELSE "rows")

\* return None (line 101); the empty frame (line 340)
GaveUp == [k |-> "none", body |-> 0]

\* (mutant) the sleep also follows the last attempt
ShouldSleepAlways(attempt) == TRUE

\* lines 99 and 336: if attempt < MAX_RETRIES
ShouldSleep(attempt) == attempt < MAX_RETRIES

\* the next iteration of for attempt in range(1, MAX_RETRIES + 1), or the
\* statement after the loop
NextAttempt(h) ==
    IF h.attempt < MAX_RETRIES
    THEN [h EXCEPT !.attempt = h.attempt + 1, !.at = "request"]
    ELSE [h EXCEPT !.at = "returned", !.result = GaveUp]

InitRetry ==
    /\ prog = "retry" /\ pc = "retry"
    /\ fred_js = <<>> /\ census_js = CensusFailed
    /\ gss_file = [exists |-> FALSE, columns |-> {}, rows |-> <<>>]
    /\ dfs = <<>> /\ meta_list = <<>> /\ merged = NoFrame /\ files = {}
    /\ exit_code = -1
    /\ aggregated = [status |-> "none", out |-> NoOutput]
    /\ \E fn \in RetryFns : \E replies \in [1..MAX_RETRIES -> Replies(fn)] :
          http = [fn |-> fn, replies |-> replies, attempt |-> 1, at |-> "request",
                  requests |-> 0, slept |-> <<>>, result |-> [k |-> "pending", body |-> 0]]

\* one attempt: the request and what follows it up to the sleep
Request ==
    /\ http.at = "request"
    /\ LET reply == http.replies[http.attempt]
           asked == [http EXCEPT !.requests = http.requests + 1]
       IN  http' = IF Succeeds(http.fn, reply)
                   THEN [asked EXCEPT !.at = "returned", !.result = reply]
                   ELSE IF ShouldSleep(http.attempt)
                   THEN [asked EXCEPT !.at = "sleep"]
                   ELSE NextAttempt(asked)
    /\ UNCHANGED <<prog, fred_js, census_js, gss_file, pc, dfs, meta_list, merged,
                   files, exit_code, aggregated>>

\* time.sleep(RETRY_SLEEP * attempt)
Sleep ==
    /\ http.at = "sleep"
    /\ http' = NextAttempt([http EXCEPT !.slept = Append(http.slept, RETRY_SLEEP * http.attempt)])
    /\ UNCHANGED <<prog, fred_js, census_js, gss_file, pc, dfs, meta_list, merged,
                   files, exit_code, aggregated>>

NextRetry == Request \/ Sleep

\* the loop runs on: nothing but its own steps can stop it
SpecRetry == InitRetry /\ [][NextRetry]_vars /\ WF_vars(NextRetry)

\* ------------------------------------------------------------------- claims
\* the output table exists
Built == pc \in {"write_csv", "write_dta", "write_meta", "done"}

\* every fetch has run: dfs is the list the merge receives
Fetched == pc = "merge" \/ Built

\* the date-keyed series passed to the merge
DateFrames == FredCensusDfs(dfs)

Keys(rows) == {r.date : r \in Range(rows)}
CalendarDates(rows) == {k \in Keys(rows) : k.k = "iso"}

\* the value columns of the output table: those with a _PCT_CHANGE column
SourceCols(m) == {c \in Range(m.columns) : PctName(c) \in Range(m.columns)}

\* the nearest row before i whose value is not absent, 0 if there is none
Prior(vals, i) ==
    LET js == {j \in 1..(i - 1) : ~IsNaN(vals[j])}
    IN  IF js = {} THEN 0 ELSE CHOOSE j \in js : \A k \in js : k <= j

\* (v - prev_v) / prev_v * 100
RelativeChange(v, prev_v) == FloatScale(FloatDiv(FloatSub(v, prev_v), prev_v), 100)

Count(seq, x) == Cardinality({i \in 1..Len(seq) : seq[i] = x})
SameBag(a, b) == \A x \in Range(a) \cup Range(b) : Count(a, x) = Count(b, x)

\* C1: the dates of the merged table are the union of the dates of the
\* series: the keys of the outer-join fold are exactly the union of the keys
\* of the frames (whatever key order the merge uses), and the calendar dates
\* of the output table are exactly the calendar dates of the series.
C1_OuterJoinCompleteness ==
    /\ Fetched => \A sort_keys \in BOOLEAN :
          Keys(MergeDates(DateFrames, sort_keys).rows)
            = UNION {Keys(DateFrames[f].rows) : f \in 1..Len(DateFrames)}
    /\ Built => CalendarDates(merged.rows)
                  = UNION {CalendarDates(DateFrames[f].rows) : f \in 1..Len(DateFrames)}

\* two series each hold a date the other lacks, and the table is built
C1_Witness ==
    /\ Built
    /\ \E f, g \in 1..Len(DateFrames) :
          /\ CalendarDates(DateFrames[f].rows) \ CalendarDates(DateFrames[g].rows) # {}
          /\ CalendarDates(DateFrames[g].rows) \ CalendarDates(DateFrames[f].rows) # {}

\* C2: at every calendar date of the output table, the cells of a series'
\* value column are that series' own observations at that date, and are
\* absent when the series has no observation at that date.
C2_CellsAreOwnObservations ==
    Built => \A f \in 1..Len(DateFrames) : \A k \in CalendarDates(merged.rows) :
        LET col == DateFrames[f].columns[2]
            cells == {r[col] : r \in {x \in Range(merged.rows) : x.date = k}}
            own == {q[col] : q \in {x \in Range(DateFrames[f].rows) : x.date = k}}
        IN  IF own = {} THEN cells = {NaN} ELSE cells = own

\* scenario A: S1 = {d1: 5, d2: 6}, S2 = {d1: 100} give (d1, 5, 100), (d2, 6, absent)
C2_Witness ==
    /\ Built
    /\ Len(merged.rows) = 2
    /\ merged.rows[1].date = Iso(1)
    /\ merged.rows[1]["UNEMPLOYMENT_RATE"] = Num(5)
    /\ merged.rows[1]["LABOR_FORCE_PARTICIPATION"] = Num(100)
    /\ merged.rows[2].date = Iso(2)
    /\ merged.rows[2]["UNEMPLOYMENT_RATE"] = Num(6)
    /\ merged.rows[2]["LABOR_FORCE_PARTICIPATION"] = NaN

\* C3: in every value column the percent change of the first non-absent value
\* is absent, and that of a later non-absent value v is
\* (v - prev_v) / prev_v * 100 for the nearest earlier non-absent value prev_v,
\* whenever prev_v is not 0 (the quotient is then defined; C5 covers 0).
C3_PercentChangeFromPrior ==
    Built => \A c \in SourceCols(merged) : \A i \in 1..Len(merged.rows) :
        LET vals == Column(merged, c)
            pct == Column(merged, PctName(c))
            j == Prior(vals, i)
        IN  ~IsNaN(vals[i]) =>
              IF j = 0 THEN IsNaN(pct[i])
              ELSE vals[j] # Num(0) => pct[i] = RelativeChange(vals[i], vals[j])

\* a value whose nearest earlier value lies behind at least one absent row
C3_Witness ==
    /\ Built
    /\ \E c \in SourceCols(merged) : \E i \in 1..Len(merged.rows) :
          LET vals == Column(merged, c)
              j == Prior(vals, i)
          IN  /\ ~IsNaN(vals[i])
              /\ j # 0 /\ j < i - 1
              /\ vals[j] \notin {Num(0), vals[i]}
              /\ Column(merged, PctName(c))[i] = RelativeChange(vals[i], vals[j])

\* C4 (as claimed): the percent change is absent at every row whose value is
\* absent.
C4_AbsentRowsStayAbsent ==
    Built => \A c \in SourceCols(merged) : \A i \in 1..Len(merged.rows) :
        IsNaN(merged.rows[i][c]) => IsNaN(merged.rows[i][PctName(c)])

\* C5: a row whose prior value is exactly 0 has an absent percent change, and
\* no percent-change cell is infinite.
C5_ZeroPriorIsAbsent ==
    Built => \A c \in SourceCols(merged) : \A i \in 1..Len(merged.rows) :
        LET vals == Column(merged, c)
            j == Prior(vals, i)
        IN  /\ ~IsInf(merged.rows[i][PctName(c)])
            /\ (j # 0 /\ vals[j] = Num(0)) => IsNaN(merged.rows[i][PctName(c)])

\* a non-zero value right after a prior value of 0: the quotient is infinite
C5_Witness ==
    /\ Built
    /\ \E c \in SourceCols(merged) : \E i \in 1..Len(merged.rows) :
          LET vals == Column(merged, c)
              j == Prior(vals, i)
          IN  /\ j # 0 /\ vals[j] = Num(0)
              /\ ~IsNaN(vals[i]) /\ vals[i] # Num(0)
              /\ IsNaN(merged.rows[i][PctName(c)])

\* the merged table of lines 434-450 for the date-keyed series taken in the
\* order p, under either key order of the merge
Reordered(p, sort_keys) ==
    DeriveYearSort(MergeDates([i \in 1..Len(DateFrames) |-> DateFrames[p[i]]], sort_keys))

RowDates(rows) == [i \in 1..Len(rows) |-> rows[i].date]

\* no series holds a date twice
DatesDistinct ==
    \A f \in 1..Len(DateFrames) : \A i, j \in 1..Len(DateFrames[f].rows) :
        i < j => DateFrames[f].rows[i].date # DateFrames[f].rows[j].date

C7_OneRowPerDate ==
    /\ \A f \in 1..Len(dfs) : \A i, j \in 1..Len(dfs[f].rows) :
          (~IsYearKeyed(dfs[f]) /\ i < j) => dfs[f].rows[i].date # dfs[f].rows[j].date
    /\ Built => \A i, j \in 1..Len(merged.rows) :
          (i < j /\ merged.rows[i].date.k = "iso" /\ merged.rows[j].date.k = "iso")
             => merged.rows[i].date.d < merged.rows[j].date.d

\* C8 (as claimed): no row of a normalized series and no row of the output
\* table has an absent date or an absent year.
C8_UnparsableDatesDropped ==
    /\ \A f \in 1..Len(dfs) : \A i \in 1..Len(dfs[f].rows) :
          ~IsYearKeyed(dfs[f]) => dfs[f].rows[i].date # NaNStr
    /\ Built => \A i \in 1..Len(merged.rows) :
          merged.rows[i].date # NaNStr /\ merged.rows[i].year # NA

\* the mean, as a percentage, of flag over the respondents of year y whose
\* field is not missing; absent when there is none
MeanOverNonMissing(rows, y, field, name) ==
    LET g == SelectSeq(rows, LAMBDA r : r.year = y /\ ~IsNaN(r[field]))
    IN  IF g = <<>> THEN NaN
        ELSE FloatScale(Frac(SeqSum([i \in 1..Len(g) |-> Flag(name, g[i])]), Len(g)), 100)

\* C9 (as claimed): each annual aggregate of gss_aggregate_by_year is the mean
\* over the respondents of the year whose field is not missing, and is absent
\* when the year has none.
C9_MeanOverNonMissing ==
    \A f \in 1..Len(dfs) : \A i \in 1..Len(dfs[f].rows) :
        IsYearKeyed(dfs[f]) =>
          LET g == dfs[f].rows[i]
          IN  /\ g.gss_union_pct
                   = MeanOverNonMissing(gss_file.rows, g.year, "union", "in_union")
              /\ g.gss_work_pct
                   = MeanOverNonMissing(gss_file.rows, g.year, "wrkstat", "working")
              /\ g.gss_college_pct
                   = MeanOverNonMissing(gss_file.rows, g.year, "degree", "college")

\* the annual union rate, mean of the 0/1 flag times 100, of year y
UnionRate(rows, y) == FloatScale(GroupMean(rows, y, "in_union"), 100)

\* C10 (as claimed): both aggregators report the union indicator of every
\* year as the mean of its 0/1 contributions times 100.
C10_BinaryIndicatorsScaled ==
    /\ \A f \in 1..Len(dfs) : \A i \in 1..Len(dfs[f].rows) :
          IsYearKeyed(dfs[f]) =>
             dfs[f].rows[i].gss_union_pct = UnionRate(gss_file.rows, dfs[f].rows[i].year)
    /\ (pc = "prepared" /\ gss_file.exists /\ gss_file.rows # <<>>
          /\ {"year", "union"} \subseteq gss_file.columns) =>
          /\ aggregated.out.written
          /\ "gss_union_pct" \in Range(aggregated.out.columns)
          /\ \A y \in {r.year : r \in Range(gss_file.rows)} :
                \E i \in 1..Len(aggregated.out.rows) :
                   /\ aggregated.out.rows[i].year = Num(y)
                   /\ aggregated.out.rows[i].gss_union_pct = UnionRate(gss_file.rows, y)

\* the fields of the three indicators and the column each is reported in
FieldOf == [gss_union_pct |-> "union", gss_work_pct |-> "wrkstat", gss_college_pct |-> "degree"]

\* the microdata has a year column, respondents, and some but not all of the
\* indicator fields
OneFieldMissing ==
    /\ gss_file.exists /\ gss_file.rows # <<>>
    /\ FirstIn(<<"year", "YEAR", "Year">>, gss_file.columns) # ""
    /\ \E c \in DOMAIN FieldOf : FieldOf[c] \notin gss_file.columns
    /\ \E c \in DOMAIN FieldOf : FieldOf[c] \in gss_file.columns

\* C11 (as claimed): when the field of one indicator is missing from the
\* microdata, gss_aggregate_by_year still yields the annual frame, with the
\* columns of the indicators whose fields are present and without the
\* column of the missing one, and the frame is joined.
C11_MissingFieldOmitsOnlyIndicator ==
    (prog = "build" /\ Fetched /\ OneFieldMissing) =>
        \E f \in 1..Len(dfs) :
            /\ IsYearKeyed(dfs[f])
            /\ Range(dfs[f].columns)
                 = {"year"} \cup {c \in DOMAIN FieldOf : FieldOf[c] \in gss_file.columns}

\* none of the accepted aliases of the year column is a column of the file
NoYearColumn ==
    gss_file.exists /\ FirstIn(<<"year", "YEAR", "Year">>, gss_file.columns) = ""

\* C12: when the microdata has no year column, gss_aggregate_by_year returns
\* the empty table, build_and_save_csv adds neither a frame nor a metadata
\* record for it, and the run goes on: it stops before the merge only when
\* the date-keyed series are all empty, the output table is the one built
\* from the date-keyed series alone, and the finished run has written it.
C12_NoYearColumnSkipsSource ==
    (prog = "build" /\ NoYearColumn) =>
        /\ gss_aggregate_by_year(gss_file) = EmptyFrame(GssColumns)
        /\ \A f \in 1..Len(dfs) : ~IsYearKeyed(dfs[f])
        /\ "GSS_AGGREGATED" \notin Range(meta_list)
        /\ Fetched => Len(dfs) = NumFred + 1 /\ Len(meta_list) = NumFred + 1
        /\ pc = "exited" => \A f \in 1..Len(dfs) : dfs[f].rows = <<>>
        /\ Built => \E sort_keys \in BOOLEAN :
               merged = AddPctChange(DeriveYearSort(MergeDates(dfs, sort_keys)))
        /\ pc = "done" => "csv" \in files

\* a finished run on microdata without a year column
C12_Witness ==
    /\ prog = "build" /\ NoYearColumn
    /\ pc = "done" /\ "csv" \in files
    /\ merged.rows # <<>>

\* the output table was just built (it does not change afterwards)
JustBuilt == pc = "write_csv"

\* C13: the annual join is a left join on the year derived from each row's
\* date: the date rows are those of the merge of the date-keyed series, in
\* the same number and order and with the same cells; every row's year is the
\* year of its date; a row whose year has an annual row holds that row's
\* values (so rows of one year hold the same values), and a row whose year
\* has none holds absent annual cells.
C13_LeftJoinOnYear ==
    (JustBuilt /\ GssDfs(dfs) # <<>>) =>
        LET g == GssDfs(dfs)[Len(GssDfs(dfs))]
        IN  /\ \E sort_keys \in BOOLEAN :
                   LET base == DeriveYearSort(MergeDates(DateFrames, sort_keys))
                   IN  /\ Len(merged.rows) = Len(base.rows)
                       /\ \A i \in 1..Len(base.rows) : \A c \in Range(base.columns) :
                              merged.rows[i][c] = base.rows[i][c]
            /\ \A i \in 1..Len(merged.rows) :
                   /\ merged.rows[i].year = YearOf(ToDatetime(merged.rows[i].date))
                   /\ \A c \in Range(ValueCols(g.columns)) :
                          LET hits == {k \in 1..Len(g.rows) : g.rows[k].year = merged.rows[i].year}
                          IN  IF hits = {} THEN merged.rows[i][c] = NaN
                              ELSE \A k \in hits : merged.rows[i][c] = g.rows[k][c]

\* two date rows of one year share its annual value, a date row of another
\* year has no annual row, and an annual year has no date row
C13_Witness ==
    /\ JustBuilt /\ GssDfs(dfs) # <<>>
    /\ LET g == GssDfs(dfs)[Len(GssDfs(dfs))]
           years == {g.rows[k].year : k \in 1..Len(g.rows)}
       IN  /\ \E i, j \in 1..Len(merged.rows) :
                  /\ i # j /\ merged.rows[i].year = merged.rows[j].year
                  /\ merged.rows[i].year \in years
                  /\ merged.rows[i].gss_union_pct = Num(50)
                  /\ merged.rows[j].gss_union_pct = Num(50)
           /\ \E i \in 1..Len(merged.rows) :
                  /\ merged.rows[i].year \notin years \cup {NA}
                  /\ IsNaN(merged.rows[i].gss_union_pct)
           /\ \E y \in years : \A i \in 1..Len(merged.rows) : merged.rows[i].year # y

\* the value columns in insertion order: the FRED columns in the order of
\* fred_specs, the Census column, then the annual columns when joined
InsertionOrder ==
    [i \in 1..NumFred |-> fred_specs[i].col] \o <<"POVERTY_RATE_OFFICIAL">>
    \o (IF GssDfs(dfs) # <<>> THEN Tail(GssColumns) ELSE <<>>)

\* C14: the columns of the output table are date, year, then each value
\* column in insertion order immediately followed by its _PCT_CHANGE column;
\* no column name occurs twice and every row has exactly these columns.
C14_ColumnOrder ==
    Built =>
        /\ merged.columns
             = <<"date", "year">>
               \o Flatten([k \in 1..Len(InsertionOrder) |->
                              <<InsertionOrder[k], PctName(InsertionOrder[k])>>])
        /\ \A i, j \in 1..Len(merged.columns) :
               i # j => merged.columns[i] # merged.columns[j]
        /\ \A i \in 1..Len(merged.rows) : DOMAIN merged.rows[i] = Range(merged.columns)

\* a table of every kind of source: FRED, Census and the annual aggregates
C14_Witness ==
    /\ Built /\ GssDfs(dfs) # <<>>
    /\ Len(merged.columns) = 2 + 2 * (NumFred + 4)
    /\ \E f \in 1..Len(DateFrames) : DateFrames[f].rows = <<>>
    /\ merged.rows # <<>>

\* every fetch has run and no source returned a row
AllSourcesEmpty ==
    /\ prog = "build" /\ pc \notin {"fetch_fred", "fetch_census", "load_gss"}
    /\ \A f \in 1..Len(dfs) : dfs[f].rows = <<>>
    /\ gss_aggregate_by_year(gss_file).rows = <<>>

\* C15: when every source is empty the run never builds or writes anything:
\* it stands before the check of line 442 or has left through sys.exit(2),
\* with a non-zero exit status and no output file; and whenever the run has
\* left through that exit the status is non-zero and no file is written.
C15_NoDataExits ==
    /\ AllSourcesEmpty =>
          /\ pc \in {"merge", "exited"}
          /\ files = {}
          /\ pc = "exited" => exit_code = 2
    /\ pc = "exited" => exit_code # 0 /\ files = {} /\ merged = NoFrame

\* every request failed and the microdata file is missing: the run has exited
C15_Witness ==
    /\ AllSourcesEmpty
    /\ fred_js = NoData /\ census_js = CensusFailed /\ ~gss_file.exists
    /\ pc = "exited" /\ exit_code = 2 /\ files = {}

\* C16 (as claimed): no output file exists before the output table is built,
\* and a run that has failed has left no output file behind.
C16_NoPartialOutput ==
    /\ files # {} => pc \in {"write_csv", "write_dta", "write_meta", "done", "failed"}
    /\ pc \in {"failed", "exited"} => files = {}

\* the date-keyed sources in fetch order: the FRED series, then the Census
SourceCol(f) == IF f <= NumFred THEN fred_specs[f].col ELSE "POVERTY_RATE_OFFICIAL"
SourceId(f) == IF f <= NumFred THEN fred_specs[f].id ELSE "CENSUS_HISTPOV2_POV_RATE_ALL_PEOPLE"

\* the fetch of source f failed
SourceFailed(f) == IF f <= NumFred THEN ~fred_js[f].ok ELSE ~census_js.ok

\* dfs without its f-th frame
Without(frames, f) ==
    [k \in 1..(Len(frames) - 1) |-> IF k < f THEN frames[k] ELSE frames[k + 1]]

\* C17: a source whose fetch failed contributes the empty frame with its
\* value column, and its metadata record is appended; the run exits before
\* the merge only when no date-keyed source has a row; in the output table
\* the column of the failed source is there with every cell absent, and all
\* the other cells are those of the table built without the failed source.
C17_FetchFailureContributesEmpty ==
    prog = "build" =>
        /\ \A f \in 1..Len(dfs) : (f <= NumFred + 1 /\ SourceFailed(f)) =>
               /\ dfs[f] = EmptyFrame(<<"date", SourceCol(f)>>)
               /\ Len(meta_list) >= f /\ meta_list[f] = SourceId(f)
        /\ pc = "exited" => \A f \in 1..Len(DateFrames) : DateFrames[f].rows = <<>>
        /\ JustBuilt => \A f \in 1..(NumFred + 1) : SourceFailed(f) =>
               /\ SourceCol(f) \in Range(merged.columns)
               /\ \A i \in 1..Len(merged.rows) : IsNaN(merged.rows[i][SourceCol(f)])
               /\ \E sort_keys \in BOOLEAN :
                      LET others == BuildTable(Without(dfs, f), sort_keys)
                      IN  /\ Len(merged.rows) = Len(others.rows)
                          /\ \A i \in 1..Len(others.rows) : \A c \in Range(others.columns) :
                                 merged.rows[i][c] = others.rows[i][c]

\* the first FRED fetch failed, another source has rows, the table is built
C17_Witness ==
    /\ JustBuilt
    /\ SourceFailed(1) /\ ~SourceFailed(2)
    /\ merged.rows # <<>>
    /\ Len(meta_list) >= NumFred + 1
    /\ \A i \in 1..Len(merged.rows) : IsNaN(merged.rows[i][SourceCol(1)])

\* the attempts whose request succeeds
Successes == {k \in 1..MAX_RETRIES : Succeeds(http.fn, http.replies[k])}

\* the sleeps between the first n attempts
Backoff(n) == [k \in 1..(n - 1) |-> RETRY_SLEEP * k]

\* at most MAX_RETRIES requests were issued; the sleeps so far are
\* RETRY_SLEEP * attempt for the failed attempts before the last one, each
\* longer than the one before; a loop that has returned holds the reply of
\* its first successful request, with no request after it, or nothing after
\* MAX_RETRIES failed requests, with no sleep after the last
RetryBound ==
    /\ http.requests <= MAX_RETRIES
    /\ Len(http.slept) < MAX_RETRIES
    /\ \A i, j \in 1..Len(http.slept) : i < j => http.slept[i] < http.slept[j]
    /\ http.at = "returned" =>
          IF Successes = {}
          THEN /\ http.result = GaveUp
               /\ http.requests = MAX_RETRIES
               /\ http.slept = Backoff(MAX_RETRIES)
          ELSE LET first == CHOOSE k \in Successes : \A m \in Successes : k <= m
               IN  /\ http.result = http.replies[first]
                   /\ http.requests = first
                   /\ http.slept = Backoff(first)

\* C18: _http_get_json and the Census loop always return, after at most
\* MAX_RETRIES requests: with the reply of the first successful request and
\* no request after it, or with nothing after MAX_RETRIES failed requests;
\* they sleep RETRY_SLEEP * attempt between attempts, a strictly increasing
\* delay, and not after the last failed attempt.
C18_BoundedRetry == []RetryBound /\ <>(http.at = "returned")

\* every request failed: three requests, two sleeps, nothing returned
C18_Witness ==
    /\ http.fn = "_http_get_json"
    /\ http.at = "returned" /\ http.result = GaveUp
    /\ http.requests = MAX_RETRIES
    /\ http.slept = <<RETRY_SLEEP, 2 * RETRY_SLEEP>>

====
